---------------------------- MODULE Spec2Model ----------------------------
(***************************************************************************)
(* Model of the yearly simulation engine of the real-estate calculator     *)
(* (src/model.js: pmt, getAfaRate, simulateScenario) and of the way its    *)
(* callers invoke it (src/main.js: recalcAllScenarios).                    *)
(*                                                                         *)
(* Numbers.  The engine computes with JavaScript numbers.  The model       *)
(* computes with exact rationals <<n, d>> (d > 0, lowest terms), i.e. with *)
(* the real-number meaning of every expression of the source; IEEE         *)
(* rounding of the individual operations is not modelled.  Values that are *)
(* irrational in general (Math.pow with a fractional exponent) are kept as *)
(* unevaluated terms <<"pow", base, exponent>>.                            *)
(*                                                                         *)
(* Optional inputs.  The inputs object is a record; a property that is     *)
(* absent from it is a field outside the record's domain.  The JavaScript  *)
(* value null is Null (<<0>>), a sequence, so that it compares with a      *)
(* rational without a type clash.                                          *)
(***************************************************************************)
EXTENDS Integers, Sequences, FiniteSets, TLC

-----------------------------------------------------------------------------
(* Exact rational arithmetic.                                              *)

Abs(i) == IF i < 0 THEN -i ELSE i

RECURSIVE Gcd(_, _)
Gcd(a, b) == IF b = 0 THEN a ELSE Gcd(b, a % b)

\* The element of a one-element set.  The(S) with S = { F(x) : x \in {v} }
\* is F(v) with v evaluated once, before F is applied.
The(S) == CHOOSE r \in S : TRUE

\* The rational n/d in lowest terms with a positive denominator (d # 0).
Reduce(n, d, g) == IF d < 0 THEN <<(-n) \div g, (-d) \div g>>
                   ELSE <<n \div g, d \div g>>
Rat(n, d) == The({ Reduce(x, y, Gcd(Abs(x), Abs(y))) : x \in {n}, y \in {d} })

R(i)    == <<i, 1>>
Zero    == R(0)
One     == R(1)
IsInt(a) == a[2] = 1

\* sums over the least common denominator, so that the products stay small
AddOver(a, b, g) ==
    Rat(a[1] * (b[2] \div g) + b[1] * (a[2] \div g), (a[2] \div g) * b[2])
RAdd(a, b) == The({ AddOver(x, y, Gcd(x[2], y[2])) : x \in {a}, y \in {b} })
RNeg(a)    == The({ <<-x[1], x[2]>> : x \in {a} })
RSub(a, b) == RAdd(a, RNeg(b))
\* products cross-cancelled first, for the same reason
MulOf(x, y) == <<x[1] * y[1], x[2] * y[2]>>
RMul(a, b) ==
    The({ The({ MulOf(p, q) : p \in {Rat(x[1], y[2])}, q \in {Rat(y[1], x[2])} }) :
          x \in {a}, y \in {b} })
Inverse(b) == The({ Rat(y[2], y[1]) : y \in {b} })        \* b # 0
RDiv(a, b) == RMul(a, Inverse(b))
RLt(a, b)  == RSub(a, b)[1] < 0
RLe(a, b)  == RSub(a, b)[1] <= 0
RGt(a, b)  == RLt(b, a)
RMin(a, b) == The({ IF RLe(x, y) THEN x ELSE y : x \in {a}, y \in {b} })
RMax(a, b) == The({ IF RLe(x, y) THEN y ELSE x : x \in {a}, y \in {b} })
RAbs(a)    == The({ <<Abs(x[1]), x[2]>> : x \in {a} })

\* a > 10^-k, without forming a * 10^k
RECURSIVE Pow10(_)
Pow10(k) == IF k = 0 THEN 1 ELSE 10 * Pow10(k - 1)
GtTenTo(a, k) == \E x \in {a} : x[1] > x[2] \div Pow10(k)

RECURSIVE RPowNat(_, _)
RPowNat(b, k) == IF k = 0 THEN One ELSE RMul(b, RPowNat(b, k - 1))

\* Math.pow(b, e): exact when the exponent is an integer (b # 0 when e < 0)
\* or the value is trivially exact, an unevaluated term otherwise.
PowOf(b, e) ==
    IF IsInt(e)
    THEN IF e[1] >= 0 THEN RPowNat(b, e[1])
         ELSE Inverse(RPowNat(b, -e[1]))
    ELSE IF b = One THEN One
    ELSE <<"pow", b, e>>
MathPow(b, e) == The({ PowOf(x, y) : x \in {b}, y \in {e} })

IsTerm(v) == Len(v) = 3

\* v * w and w - v for a Math.pow result w (terms stay unevaluated)
TMulOf(x, y) ==
    IF IsTerm(y) THEN (IF x = Zero THEN Zero ELSE <<"mul", x, y>>)
    ELSE RMul(x, y)
TMul(v, w) == The({ TMulOf(x, y) : x \in {v}, y \in {w} })
TSubOf(x, y) == IF IsTerm(x) THEN <<"sub", x, y>> ELSE RSub(x, y)
TSub(w, v) == The({ TSubOf(x, y) : x \in {w}, y \in {v} })

-----------------------------------------------------------------------------
(* JavaScript values of optional inputs.                                   *)

Null == <<0>>

\* Destructuring default: the default applies to an absent property only.
Get(in, f, d) == IF f \in DOMAIN in THEN in[f] ELSE d

\* x || d for a number x: d replaces 0 (and NaN, which no input here is).
OrElse(x, d) == IF x = Zero THEN d ELSE x

-----------------------------------------------------------------------------
(* 1. pmt: Excel-like annuity payment.                                      *)

RateEpsDigits == 9
DebtEpsDigits == 6

\* Math.abs(x) < 1e-9
NearZeroRate(x) == ~GtTenTo(RAbs(x), RateEpsDigits) /\ RAbs(x) # Rat(1, Pow10(RateEpsDigits))

\* x > 1e-6
AboveDebtEps(x) == GtTenTo(x, DebtEpsDigits)

\* a zero-rate instalment that is the whole loan instead of its n-th part
pmtUndivided(rate, nper, pv) ==
    IF NearZeroRate(rate)
    THEN (IF nper > 0 THEN pv ELSE Zero)
    ELSE RDiv(RMul(pv, rate),
              RSub(One, MathPow(RAdd(One, rate), R(-nper))))

pmt(rate, nper, pv) ==
    IF NearZeroRate(rate)
    THEN (IF nper > 0 THEN RDiv(pv, R(nper)) ELSE Zero)
    ELSE RDiv(RMul(pv, rate),
              RSub(One, MathPow(RAdd(One, rate), R(-nper))))

-----------------------------------------------------------------------------
(* 2. getAfaRate: depreciation rate of a year under the selected model.     *)

\* a Linear 3% that runs as long as Linear 2%
getAfaRateLongLinear3(afaModel, y, lifetimeYears) ==
    CASE afaModel \in {"Linear 2%", "Linear 2% p.a.", "Linear 3%", "Linear 3% p.a."} ->
            IF y <= 50
            THEN (IF afaModel \in {"Linear 2%", "Linear 2% p.a."}
                  THEN Rat(2, 100) ELSE Rat(3, 100))
            ELSE Zero
      [] afaModel = "Degressive 5% + Linear 2%" ->
            IF y <= 6 THEN Rat(5, 100) ELSE Rat(2, 100)
      [] afaModel = "Degressive 5% + Linear 3%" ->
            IF y <= 6 THEN Rat(5, 100) ELSE Rat(3, 100)
      [] afaModel \in {"Linear 1/Restnutzungsdauer", "Linear 1 / remaining life"} ->
            IF RLe(R(y), lifetimeYears) THEN RDiv(One, lifetimeYears) ELSE Zero
      [] OTHER -> Rat(2, 100)

getAfaRate(afaModel, y, lifetimeYears) ==
    CASE afaModel \in {"Linear 2%", "Linear 2% p.a."} ->
            IF y <= 50 THEN Rat(2, 100) ELSE Zero
      [] afaModel \in {"Linear 3%", "Linear 3% p.a."} ->
            IF y <= 33 THEN Rat(3, 100) ELSE Zero
      [] afaModel = "Degressive 5% + Linear 2%" ->
            IF y <= 6 THEN Rat(5, 100) ELSE Rat(2, 100)
      [] afaModel = "Degressive 5% + Linear 3%" ->
            IF y <= 6 THEN Rat(5, 100) ELSE Rat(3, 100)
      [] afaModel \in {"Linear 1/Restnutzungsdauer", "Linear 1 / remaining life"} ->
            IF RLe(R(y), lifetimeYears) THEN RDiv(One, lifetimeYears) ELSE Zero
      [] OTHER -> Rat(2, 100)

-----------------------------------------------------------------------------
(* 3.1 Unpacking of the inputs object with its defaults.  now is the year   *)
(* the clock shows when the call is made.                                   *)

Unpack(in, now) ==
    [ startYear              |-> Get(in, "startYear", R(now)),
      buildingValue          |-> Get(in, "buildingValue", Zero),
      landValue              |-> Get(in, "landValue", Zero),
      grEStRate              |-> Get(in, "grEStRate", Zero),
      maklerRate             |-> Get(in, "maklerRate", Zero),
      grundbuchRate          |-> Get(in, "grundbuchRate", Zero),
      notaryRate             |-> Get(in, "notaryRate", Zero),
      companyCost            |-> Get(in, "companyCost", Zero),
      fittingUp              |-> Get(in, "fittingUp", Zero),
      initialRepairs         |-> Get(in, "initialRepairs", Zero),
      buildingLossRate       |-> Get(in, "buildingLossRate", Zero),
      landGrowthRate         |-> Get(in, "landGrowthRate", Zero),
      constructionCostGrowth |-> Get(in, "constructionCostGrowth", Zero),
      annualMaintenance      |-> Get(in, "annualMaintenance", Zero),
      maintenanceGrowth      |-> Get(in, "maintenanceGrowth", Zero),
      monthlyRent            |-> Get(in, "monthlyRent", Zero),
      vacancyRate            |-> Get(in, "vacancyRate", Zero),
      rentGrowth             |-> Get(in, "rentGrowth", Zero),
      incomeTaxRate          |-> Get(in, "incomeTaxRate", Zero),
      equity                 |-> Get(in, "equity", Zero),
      loanTermYears1         |-> Get(in, "loanTermYears1", 0),
      interestRate1          |-> Get(in, "interestRate1", Zero),
      discountRate           |-> Get(in, "discountRate", Zero),
      loanTermYears2         |-> Get(in, "loanTermYears2", 0),
      interestRate2          |-> Get(in, "interestRate2", Get(in, "interestRate1", Zero)),
      sellingCostRate        |-> Get(in, "sellingCostRate", Zero),
      saleMode               |-> Get(in, "saleMode", "hold"),
      saleYear               |-> Get(in, "saleYear", Null),
      investmentHorizonYears |-> Get(in, "investmentHorizonYears", R(30)),
      altReturnBeforeTax     |-> Get(in, "altReturnBeforeTax", Zero),
      altTaxRate             |-> Get(in, "altTaxRate", Get(in, "incomeTaxRate", Zero)),
      afaModel               |-> Get(in, "afaModel", "Linear 2%"),
      buildingLifetimeYears  |-> Get(in, "buildingLifetimeYears", R(50)) ]

horizonYears(u) == RMax(One, OrElse(u.investmentHorizonYears, One))

-----------------------------------------------------------------------------
(* 3.2 Basic investment and AfA basis.                                      *)

purchasePrice(u) == RAdd(u.buildingValue, u.landValue)

\* a side-cost rate that leaves the notary out
sideCostRateWithoutNotary(u) ==
    RAdd(RAdd(u.grEStRate, u.maklerRate), u.grundbuchRate)

sideCostRate(u) ==
    RAdd(RAdd(RAdd(u.grEStRate, u.maklerRate), u.grundbuchRate), u.notaryRate)

sideCostsVariable(u) == RMul(purchasePrice(u), sideCostRate(u))
sideCostsTotal(u)    == RAdd(sideCostsVariable(u), u.companyCost)

totalInvestment(u) ==
    RAdd(RAdd(RAdd(purchasePrice(u), u.fittingUp), u.initialRepairs),
         sideCostsTotal(u))

financingNeed(u) == RSub(totalInvestment(u), u.equity)

payoutFactor(u) == RSub(One, u.discountRate)

loanAmount1(u) ==
    IF ~NearZeroRate(payoutFactor(u))
    THEN RDiv(financingNeed(u), payoutFactor(u))
    ELSE financingNeed(u)

disagio(u) == RSub(loanAmount1(u), financingNeed(u))

buildingShare(u) ==
    IF RGt(purchasePrice(u), Zero)
    THEN RDiv(u.buildingValue, purchasePrice(u))
    ELSE Zero

afaBasis(u) ==
    RAdd(RAdd(u.buildingValue, u.fittingUp),
         RMul(sideCostsVariable(u), buildingShare(u)))

purchaseCostBasis(u) ==
    RAdd(RAdd(purchasePrice(u), u.fittingUp),
         RMul(sideCostsVariable(u), buildingShare(u)))

(* 3.3 Loan schedule constants.                                             *)
annuity1(u) ==
    IF u.loanTermYears1 > 0
    THEN pmt(u.interestRate1, u.loanTermYears1, loanAmount1(u))
    ELSE Zero

-----------------------------------------------------------------------------
(* 3.5 One iteration of the yearly loop.  acc holds the loop-carried        *)
(* variables of simulateScenario as they stand at the top of the iteration. *)

\* a first loan that ends one year before its term
withinLoan1Early(u, y, acc) ==
    y < u.loanTermYears1 /\ AboveDebtEps(acc.remainingDebt)

withinLoan1(u, y, acc) ==
    y <= u.loanTermYears1 /\ AboveDebtEps(acc.remainingDebt)

withinLoan2(u, y, acc) ==
    /\ ~withinLoan1(u, y, acc)
    /\ u.loanTermYears2 > 0
    /\ y <= u.loanTermYears1 + u.loanTermYears2
    /\ AboveDebtEps(acc.remainingDebt)

\* principalPaid = Math.min(annualPayment - interestPaid, remainingDebt)
principalOf(annualPayment, interestPaid, debt) ==
    RMin(RSub(annualPayment, interestPaid), debt)

\* A balance that grows by the principal instead of shrinking (sign slip).
debtAfterAdded(debt, principalPaid) == RMax(RAdd(debt, principalPaid), Zero)

\* remainingDebt = Math.max(remainingDebt - principalPaid, 0)
debtAfter(debt, principalPaid) == RMax(RSub(debt, principalPaid), Zero)

\* an annuity of loan 2 that is recomputed from the balance of every year
annuity2OfEveryYear(u, acc) ==
    pmt(u.interestRate2, u.loanTermYears2, acc.remainingDebt)

\* if (!secondLoanStarted) { annuity2 = pmt(r2, n2, remainingDebt); ... }
annuity2Of(u, acc) ==
    IF ~acc.secondLoanStarted
    THEN pmt(u.interestRate2, u.loanTermYears2, acc.remainingDebt)
    ELSE acc.annuity2

\* The loan phase of year y: the payment split and the loop-carried loan state.
LoanPhase(u, y, acc) ==
    IF withinLoan1(u, y, acc) THEN
        LET annualPayment == annuity1(u)
            interestPaid  == RMul(acc.remainingDebt, u.interestRate1)
            principalPaid == principalOf(annualPayment, interestPaid, acc.remainingDebt)
        IN  [ phase |-> "Loan1", annualPayment |-> annualPayment,
              interestPaid |-> interestPaid, principalPaid |-> principalPaid,
              remainingDebt |-> debtAfter(acc.remainingDebt, principalPaid),
              cumPrincipal |-> RAdd(acc.cumPrincipal, principalPaid),
              annuity2 |-> acc.annuity2,
              secondLoanStarted |-> acc.secondLoanStarted ]
    ELSE IF withinLoan2(u, y, acc) THEN
        LET annuity2 == annuity2Of(u, acc)
            annualPayment == annuity2
            interestPaid  == RMul(acc.remainingDebt, u.interestRate2)
            principalPaid == principalOf(annualPayment, interestPaid, acc.remainingDebt)
        IN  [ phase |-> "Loan2", annualPayment |-> annualPayment,
              interestPaid |-> interestPaid, principalPaid |-> principalPaid,
              remainingDebt |-> debtAfter(acc.remainingDebt, principalPaid),
              cumPrincipal |-> RAdd(acc.cumPrincipal, principalPaid),
              annuity2 |-> annuity2,
              secondLoanStarted |-> TRUE ]
    ELSE
        [ phase |-> "none", annualPayment |-> Zero,
          interestPaid |-> Zero, principalPaid |-> Zero,
          remainingDebt |-> acc.remainingDebt,
          cumPrincipal |-> acc.cumPrincipal,
          annuity2 |-> acc.annuity2,
          secondLoanStarted |-> acc.secondLoanStarted ]

\* A sale that also fires in the last year of the horizon.
saleFiresAtHorizon(u, y, saleHappened) ==
    /\ ~saleHappened
    /\ u.saleMode = "sell"
    /\ u.saleYear # Null
    /\ (R(y) = u.saleYear \/ R(y) = horizonYears(u))

\* A sale that fires in the first year at or after saleYear.
saleFiresFrom(u, y, saleHappened) ==
    /\ ~saleHappened
    /\ u.saleMode = "sell"
    /\ u.saleYear # Null
    /\ RLe(u.saleYear, R(y))

\* The guard of the sale branch.
saleFires(u, y, saleHappened) ==
    /\ ~saleHappened
    /\ u.saleMode = "sell"
    /\ u.saleYear # Null
    /\ R(y) = u.saleYear

\* Speculation rule: tax only if holding <= 10 years.
SpeculationYears == 10

\* A tax on every gain, whatever the year of the sale.
cgtOfAnyYear(u, capitalGain) ==
    IF RGt(capitalGain, Zero)
    THEN RMul(capitalGain, u.incomeTaxRate)
    ELSE Zero

\* let cgt = 0; if (saleYear <= 10 && capitalGain > 0) cgt = capitalGain * incomeTaxRate
cgtOf(u, capitalGain) ==
    IF RLe(u.saleYear, R(SpeculationYears)) /\ RGt(capitalGain, Zero)
    THEN RMul(capitalGain, u.incomeTaxRate)
    ELSE Zero

\* The property values after the roll-forward of one year.
landValNext(u, acc)     == RMul(acc.landVal, RAdd(One, u.landGrowthRate))
buildingValNext(u, acc) ==
    RMul(acc.buildingVal,
         RAdd(RSub(One, u.buildingLossRate), u.constructionCostGrowth))

\* propertyVal as left by the sale branch.
propertyValAfterSale == Zero

\* equityPosition as recomputed by the sale branch.
equityAfterSale(u, wealthFromCFAndLoan) ==
    RSub(wealthFromCFAndLoan, totalInvestment(u))

\* The ledger of year y up to the sale branch: rent, maintenance, AfA, tax,
\* cash flows, the roll-forward of the property values and the running sums.
Ledger(u, y, acc, loan) ==
    LET grossRent == RMul(RMul(u.monthlyRent, R(12)),
                          MathPow(RAdd(One, u.rentGrowth), R(y - 1)))
        netRent == RMul(grossRent, RSub(One, u.vacancyRate))
        maintenance ==
            IF y = 1
            THEN RNeg(RAdd(u.annualMaintenance, u.initialRepairs))
            ELSE RMul(RNeg(u.annualMaintenance),
                      MathPow(RAdd(One, u.maintenanceGrowth), R(y - 1)))
        afaRate == getAfaRate(u.afaModel, y, u.buildingLifetimeYears)
        depreciation == RMul(RNeg(afaBasis(u)), afaRate)
        interestExpense == RNeg(loan.interestPaid)
        principalFlow == RNeg(loan.principalPaid)
        taxable0 == RAdd(RAdd(RAdd(netRent, maintenance), interestExpense),
                         depreciation)
        taxable == IF y = 1 /\ AboveDebtEps(RAbs(disagio(u)))
                   THEN RAdd(taxable0, RNeg(disagio(u)))
                   ELSE taxable0
        taxCash == RMul(RNeg(u.incomeTaxRate), taxable)
        cashBeforeTax == RAdd(RAdd(RAdd(netRent, maintenance), interestExpense),
                              principalFlow)
        cashAfterTax == RAdd(cashBeforeTax, taxCash)
        landVal == landValNext(u, acc)
        buildingVal == buildingValNext(u, acc)
        propertyVal == RAdd(landVal, buildingVal)
        cumulativeCF == RAdd(acc.cumulativeCF, cashAfterTax)
        wealthFromCFAndLoan == RAdd(cumulativeCF, loan.cumPrincipal)
    IN  [ calendarYear        |-> RAdd(u.startYear, R(y - 1)),
          grossRent           |-> grossRent,
          netRent             |-> netRent,
          maintenance         |-> maintenance,
          depreciation        |-> depreciation,
          taxable             |-> taxable,
          taxCash             |-> taxCash,
          cashBeforeTax       |-> cashBeforeTax,
          cashAfterTax        |-> cashAfterTax,
          landVal             |-> landVal,
          buildingVal         |-> buildingVal,
          propertyVal         |-> propertyVal,
          cumulativeCF        |-> cumulativeCF,
          wealthFromCFAndLoan |-> wealthFromCFAndLoan,
          equityPosition      |->
              RSub(RAdd(propertyVal, wealthFromCFAndLoan), totalInvestment(u)) ]

\* The sale branch, for a year in which its guard holds: led is the ledger
\* of the year, debt the balance the loan phase left.
\* a sale whose proceeds are not reduced by the balance it clears
SaleBranchNotRepaying(u, debt, cumPrincipal, led) ==
    LET saleGross == RMul(led.propertyVal, RSub(One, u.sellingCostRate))
        capitalGain == RSub(saleGross, purchaseCostBasis(u))
        cgt == cgtOf(u, capitalGain)
        saleNetCF == RSub(saleGross, cgt)
        cumulativeCF == RAdd(led.cumulativeCF, saleNetCF)
        wealthFromCFAndLoan == RAdd(cumulativeCF, cumPrincipal)
    IN  [ saleGross           |-> saleGross,
          capitalGain         |-> capitalGain,
          cgt                 |-> cgt,
          repayDebt           |-> debt,
          saleNetCF           |-> saleNetCF,
          remainingDebt       |-> Zero,
          cashAfterTax        |-> RAdd(led.cashAfterTax, saleNetCF),
          cumulativeCF        |-> cumulativeCF,
          propertyVal         |-> propertyValAfterSale,
          wealthFromCFAndLoan |-> wealthFromCFAndLoan,
          equityPosition      |-> equityAfterSale(u, wealthFromCFAndLoan) ]

SaleBranch(u, debt, cumPrincipal, led) ==
    LET saleGross == RMul(led.propertyVal, RSub(One, u.sellingCostRate))
        capitalGain == RSub(saleGross, purchaseCostBasis(u))
        cgt == cgtOf(u, capitalGain)
        repayDebt == debt
        saleNetCF == RSub(RSub(saleGross, repayDebt), cgt)
        cumulativeCF == RAdd(led.cumulativeCF, saleNetCF)
        wealthFromCFAndLoan == RAdd(cumulativeCF, cumPrincipal)
    IN  [ saleGross           |-> saleGross,
          capitalGain         |-> capitalGain,
          cgt                 |-> cgt,
          repayDebt           |-> repayDebt,
          saleNetCF           |-> saleNetCF,
          remainingDebt       |-> Zero,
          cashAfterTax        |-> RAdd(led.cashAfterTax, saleNetCF),
          cumulativeCF        |-> cumulativeCF,
          propertyVal         |-> propertyValAfterSale,
          wealthFromCFAndLoan |-> wealthFromCFAndLoan,
          equityPosition      |-> equityAfterSale(u, wealthFromCFAndLoan) ]

\* The sale branch not taken: everything stays as the ledger left it.
NoSale(debt, led) ==
    [ saleGross           |-> Zero,
      capitalGain         |-> Zero,
      cgt                 |-> Zero,
      repayDebt           |-> Zero,
      saleNetCF           |-> Zero,
      remainingDebt       |-> debt,
      cashAfterTax        |-> led.cashAfterTax,
      cumulativeCF        |-> led.cumulativeCF,
      propertyVal         |-> led.propertyVal,
      wealthFromCFAndLoan |-> led.wealthFromCFAndLoan,
      equityPosition      |-> led.equityPosition ]

\* What the iteration leaves: the loop-carried variables (acc), the
\* YearRecord pushed (rec) and the locals no YearRecord keeps (loc).
StepResult(y, acc, loan, led, sold, end) ==
    [ acc |->
        [ remainingDebt     |-> end.remainingDebt,
          cumPrincipal      |-> loan.cumPrincipal,
          annuity2          |-> loan.annuity2,
          secondLoanStarted |-> loan.secondLoanStarted,
          landVal           |-> led.landVal,
          buildingVal       |-> led.buildingVal,
          propertyVal       |-> end.propertyVal,
          cumulativeCF      |-> end.cumulativeCF,
          saleHappened      |-> (acc.saleHappened \/ sold) ],
      rec |->
        [ yearIndex           |-> y,
          calendarYear        |-> led.calendarYear,
          remainingDebt       |-> end.remainingDebt,
          interestPaid        |-> loan.interestPaid,
          principalPaid       |-> loan.principalPaid,
          grossRent           |-> led.grossRent,
          netRent             |-> led.netRent,
          maintenance         |-> led.maintenance,
          depreciation        |-> led.depreciation,
          taxable             |-> led.taxable,
          taxCash             |-> led.taxCash,
          cashBeforeTax       |-> led.cashBeforeTax,
          cashAfterTax        |-> end.cashAfterTax,
          cumulativeCF        |-> end.cumulativeCF,
          propertyValue       |-> end.propertyVal,
          wealthFromCFAndLoan |-> end.wealthFromCFAndLoan,
          equityPosition      |-> end.equityPosition ],
      loc |->
        [ phase         |-> loan.phase,
          annualPayment |-> loan.annualPayment,
          debtAtStart   |-> acc.remainingDebt,
          debtAfterLoan |-> loan.remainingDebt,
          cashAfterTax0 |-> led.cashAfterTax,
          cumulativeCF0 |-> led.cumulativeCF,
          sold          |-> sold,
          saleGross     |-> end.saleGross,
          capitalGain   |-> end.capitalGain,
          cgt           |-> end.cgt,
          repayDebt     |-> end.repayDebt,
          saleNetCF     |-> end.saleNetCF,
          annuity2      |-> loan.annuity2,
          secondLoanStarted |-> loan.secondLoanStarted ] ]

\* The body of the loop for year y: the loan phase, the ledger, the sale
\* branch, each on what the one before left.
AfterLedger(u, y, acc, loan, led, sold) ==
    The({ StepResult(y, acc, loan, led, sold, end) :
          end \in { IF sold
                    THEN SaleBranch(u, loan.remainingDebt, loan.cumPrincipal, led)
                    ELSE NoSale(loan.remainingDebt, led) } })

AfterLoan(u, y, acc, loan) ==
    The({ AfterLedger(u, y, acc, loan, led, sold) :
          led \in {Ledger(u, y, acc, loan)},
          sold \in {saleFires(u, y, acc.saleHappened)} })

YearStep(u, y, acc) ==
    The({ AfterLoan(u, y, a, loan) : a \in {acc}, loan \in {LoanPhase(u, y, acc)} })

\* The loop-carried variables before year 1 (3.3, 3.4, 3.5 initialisations).
InitialAcc(u) ==
    [ remainingDebt     |-> loanAmount1(u),
      cumPrincipal      |-> Zero,
      annuity2          |-> Zero,
      secondLoanStarted |-> FALSE,
      landVal           |-> u.landValue,
      buildingVal       |-> RAdd(u.buildingValue, u.fittingUp),
      propertyVal       |-> RAdd(u.landValue, RAdd(u.buildingValue, u.fittingUp)),
      cumulativeCF      |-> Zero,
      saleHappened      |-> FALSE ]

-----------------------------------------------------------------------------
(* 3.6 KPIs and alternative investment.                                     *)

yearsUsed(u) ==
    IF u.saleMode = "sell" /\ u.saleYear # Null
    THEN RMin(u.saleYear, horizonYears(u))
    ELSE horizonYears(u)

\* a guard against a zero divisor only
roeTotalOfNonZero(equityInvested, totalProfit) ==
    IF equityInvested # Zero THEN RDiv(totalProfit, equityInvested) ELSE Zero

\* const roeTotal = equityInvested > 0 ? totalProfit / equityInvested : 0
roeTotalOf(equityInvested, totalProfit) ==
    IF RGt(equityInvested, Zero) THEN RDiv(totalProfit, equityInvested) ELSE Zero

equityMultipleOf(equityInvested, totalProfit) ==
    IF RGt(equityInvested, Zero)
    THEN RDiv(RAdd(equityInvested, totalProfit), equityInvested)
    ELSE Zero

Kpis(u, years) ==
    LET last == years[Len(years)]
        equityInvested == u.equity
        totalProfit == last.equityPosition
        roeTotal == roeTotalOf(equityInvested, totalProfit)
        roeAnnualized ==
            IF RGt(equityInvested, Zero) /\ RGt(yearsUsed(u), Zero)
            THEN TSub(MathPow(RAdd(One, roeTotal), RDiv(One, yearsUsed(u))), One)
            ELSE Zero
        altAfterTaxReturn == RMul(u.altReturnBeforeTax, RSub(One, u.altTaxRate))
        altEndValue == TMul(equityInvested,
                            MathPow(RAdd(One, altAfterTaxReturn), yearsUsed(u)))
    IN  [ equityInvested    |-> equityInvested,
          equityPositionEnd |-> last.equityPosition,
          totalProfit       |-> totalProfit,
          roeTotal          |-> roeTotal,
          roeAnnualized     |-> roeAnnualized,
          equityMultiple    |-> equityMultipleOf(equityInvested, totalProfit),
          propertyValueEnd  |-> last.propertyValue,
          remainingDebtEnd  |-> last.remainingDebt,
          cumulativeCFEnd   |-> last.cumulativeCF,
          altEndValue       |-> altEndValue,
          altProfit         |-> TSub(altEndValue, equityInvested) ]

Meta(u) ==
    [ startYear         |-> u.startYear,
      horizonYears      |-> horizonYears(u),
      saleMode          |-> u.saleMode,
      saleYear          |-> u.saleYear,
      totalInvestment   |-> totalInvestment(u),
      financingNeed     |-> financingNeed(u),
      loanAmount1       |-> loanAmount1(u),
      disagio           |-> disagio(u),
      afaBasis          |-> afaBasis(u),
      purchaseCostBasis |-> purchaseCostBasis(u) ]

-----------------------------------------------------------------------------
(* The inputs the callers pass.                                             *)

ShortHorizon == 3
LongHorizon  == 12
MaxTerm      == 3
MaxCalls     == 3
MaxTicks     == 1
FirstClock   == 2025

Half == Rat(1, 2)

\* Every property but the ones the variations below add.
BaseInputs ==
    [ buildingValue          |-> R(200),
      landValue              |-> R(100),
      grEStRate              |-> Rat(1, 10),
      maklerRate             |-> Zero,
      grundbuchRate          |-> Zero,
      notaryRate             |-> Zero,
      companyCost            |-> Zero,
      fittingUp              |-> R(20),
      initialRepairs         |-> R(5),
      buildingLossRate       |-> Zero,
      constructionCostGrowth |-> Zero,
      annualMaintenance      |-> R(3),
      maintenanceGrowth      |-> Zero,
      monthlyRent            |-> R(2),
      vacancyRate            |-> Zero,
      rentGrowth             |-> Zero,
      incomeTaxRate          |-> Half,
      sellingCostRate        |-> Rat(1, 10),
      altReturnBeforeTax     |-> One,
      afaModel               |-> "Linear 2%",
      buildingLifetimeYears  |-> R(50) ]

\* saleMode / saleYear: hold, sell without a year, sell in or outside the
\* horizon, sell in a fractional year, and a year given although holding.
SaleChoices ==
    { [saleMode |-> "hold"],
      [saleMode |-> "hold", saleYear |-> R(2)],
      [saleMode |-> "sell"],
      [saleMode |-> "sell", saleYear |-> Null],
      [saleMode |-> "sell", saleYear |-> R(-1)],
      [saleMode |-> "sell", saleYear |-> R(0)],
      [saleMode |-> "sell", saleYear |-> R(1)],
      [saleMode |-> "sell", saleYear |-> R(2)],
      [saleMode |-> "sell", saleYear |-> Rat(5, 2)],
      [saleMode |-> "sell", saleYear |-> R(ShortHorizon)],
      [saleMode |-> "sell", saleYear |-> R(LongHorizon - 1)],
      [saleMode |-> "sell", saleYear |-> R(LongHorizon + 1)] }

HorizonChoices ==
    { [investmentHorizonYears |-> h] :
        h \in {R(-1), R(0), R(1), R(ShortHorizon), Rat(5, 2), R(LongHorizon)} }

\* Loan 1 / loan 2: no term at all, zero-rate terms, an annuity at 50 %,
\* and refinancing phases (interestRate2 given or defaulting to interestRate1).
LoanChoices ==
    { [loanTermYears1 |-> 0, interestRate1 |-> Zero, loanTermYears2 |-> 0] }
    \cup { [loanTermYears1 |-> n, interestRate1 |-> Zero, loanTermYears2 |-> 0] :
             n \in 2..MaxTerm }
    \cup { [loanTermYears1 |-> 2, interestRate1 |-> Half, loanTermYears2 |-> 2],
           [loanTermYears1 |-> 0, interestRate1 |-> Half, loanTermYears2 |-> 2],
           [loanTermYears1 |-> 1, interestRate1 |-> Zero, loanTermYears2 |-> 2,
            interestRate2 |-> One] }

\* equity below, at and above the total investment (355), none, and negative.
EquityChoices == { [equity |-> R(e)] : e \in {-45, 0, 55, 355, 400} }

\* equity that leaves 1, 2, 4 or 6 millionths to finance
TinyLoanChoices ==
    { [equity |-> RSub(R(355), Rat(m, 1000000))] : m \in {1, 2, 4, 6} }

DiscountChoices == { [discountRate |-> d] : d \in {Zero, Half, One} }

GrowthChoices == { [landGrowthRate |-> g] : g \in {Zero, One} }

ClockChoices == { [startYear |-> R(2030)], <<>> }

TaxChoices == { [altTaxRate |-> Half], <<>> }

\* The hard-coded test scenario, as far as the acquisition and the first
\* year's rent read it ...
ReferenceScenario ==
    [ buildingValue  |-> R(200000),
      landValue      |-> R(80000),
      grEStRate      |-> Rat(5, 100),
      maklerRate     |-> Rat(3, 100),
      grundbuchRate  |-> Rat(5, 1000),
      notaryRate     |-> Rat(15, 1000),
      companyCost    |-> Zero,
      fittingUp      |-> R(30000),
      initialRepairs |-> R(5000),
      equity         |-> R(80000),
      discountRate   |-> Zero,
      monthlyRent    |-> R(1200),
      vacancyRate    |-> Rat(5, 100) ]

\* ... with what else a caller passes along with it.
ReferenceInputs ==
    { ReferenceScenario @@ s @@ h @@ l @@ g
        @@ [startYear |-> R(2025), annualMaintenance |-> R(3000),
            incomeTaxRate |-> Rat(3, 10), afaModel |-> "Linear 2%"] :
        s \in { [saleMode |-> "hold"], [saleMode |-> "sell", saleYear |-> R(1)] },
        h \in { [investmentHorizonYears |-> R(1)], [investmentHorizonYears |-> R(2)] },
        l \in { [loanTermYears1 |-> 0], [loanTermYears1 |-> 2] },
        g \in { [rentGrowth |-> Zero], [rentGrowth |-> Rat(1, 10)] } }

InputSpace ==
    \* sale, horizon, loan and growth vary together ...
    { BaseInputs @@ s @@ h @@ l @@ g @@ [equity |-> R(55), startYear |-> R(2030)] :
        s \in SaleChoices, h \in HorizonChoices, l \in LoanChoices,
        g \in GrowthChoices }
    \cup
    \* ... and so do the financing and the optional properties
    { BaseInputs @@ s @@ l @@ e @@ d @@ c @@ t
        @@ [investmentHorizonYears |-> R(ShortHorizon), landGrowthRate |-> One] :
        s \in { [saleMode |-> "hold"], [saleMode |-> "sell", saleYear |-> R(2)] },
        l \in LoanChoices, e \in EquityChoices, d \in DiscountChoices,
        c \in ClockChoices, t \in TaxChoices }
    \cup
    \* ... and loans of a few millionths, around the 1e-6 threshold
    { [altReturnBeforeTax |-> Zero, startYear |-> R(2030),
       investmentHorizonYears |-> R(ShortHorizon), saleMode |-> "hold",
       loanTermYears1 |-> n, interestRate1 |-> Zero, loanTermYears2 |-> 0]
        @@ e @@ BaseInputs :
        n \in 2..MaxTerm, e \in TinyLoanChoices }
    \cup
    \* ... and the test scenario
    ReferenceInputs

\* The inputs of the first call of a sequence of calls ...
CallInputs ==
    { BaseInputs @@ s @@ l @@ c
        @@ [investmentHorizonYears |-> R(2), equity |-> R(55)] :
        s \in { [saleMode |-> "hold"], [saleMode |-> "sell", saleYear |-> R(2)] },
        l \in LoanChoices, c \in ClockChoices }

\* ... and what a caller may pass in a later call besides these again.
OtherInputs ==
    { BaseInputs @@ [saleMode |-> "sell", saleYear |-> R(1), equity |-> R(55),
                     investmentHorizonYears |-> R(2), landGrowthRate |-> One,
                     loanTermYears1 |-> 2, interestRate1 |-> Half,
                     loanTermYears2 |-> 0] }

-----------------------------------------------------------------------------
(* The state: the caller's side (inputs object, clock, log of completed     *)
(* calls) and the locals of the running call.                               *)

VARIABLES
    inputs,             \* the inputs object of the current call
    given,              \* a copy of it, taken by the caller before the call
    clock,              \* the year new Date().getFullYear() returns
    log,                \* the completed calls: what was passed, what came back
    pc,                 \* "idle", "loop" (in simulateScenario), "done"
    u,                  \* the destructured inputs (constants of the call)
    year,               \* the loop counter
    remainingDebt, cumPrincipal, annuity2, secondLoanStarted,
    landVal, buildingVal, propertyVal, cumulativeCF, saleHappened,
    years,              \* the YearRecords pushed so far
    locals,             \* per iteration, the locals no YearRecord keeps
    result,             \* the returned object
    afaArgs,            \* the arguments of a series of getAfaRate calls
    afaRates            \* what getAfaRate returned for the years 1, 2, ...

accVars == <<remainingDebt, cumPrincipal, annuity2, secondLoanStarted,
             landVal, buildingVal, propertyVal, cumulativeCF, saleHappened>>
afaVars == <<afaArgs, afaRates>>
vars == <<inputs, given, clock, log, pc, u, year, accVars, years, locals, result,
          afaVars>>

Acc ==
    [ remainingDebt     |-> remainingDebt,
      cumPrincipal      |-> cumPrincipal,
      annuity2          |-> annuity2,
      secondLoanStarted |-> secondLoanStarted,
      landVal           |-> landVal,
      buildingVal       |-> buildingVal,
      propertyVal       |-> propertyVal,
      cumulativeCF      |-> cumulativeCF,
      saleHappened      |-> saleHappened ]

SetAcc(a) ==
    /\ remainingDebt' = a.remainingDebt
    /\ cumPrincipal' = a.cumPrincipal
    /\ annuity2' = a.annuity2
    /\ secondLoanStarted' = a.secondLoanStarted
    /\ landVal' = a.landVal
    /\ buildingVal' = a.buildingVal
    /\ propertyVal' = a.propertyVal
    /\ cumulativeCF' = a.cumulativeCF
    /\ saleHappened' = a.saleHappened

NoResult == <<>>

NoArgs == <<>>

\* No call of simulateScenario has been made.
Idle ==
    /\ inputs = <<>>
    /\ given = <<>>
    /\ clock = FirstClock
    /\ log = <<>>
    /\ pc = "idle"
    /\ u = <<>>
    /\ year = 0
    /\ remainingDebt = Zero
    /\ cumPrincipal = Zero
    /\ annuity2 = Zero
    /\ secondLoanStarted = FALSE
    /\ landVal = Zero
    /\ buildingVal = Zero
    /\ propertyVal = Zero
    /\ cumulativeCF = Zero
    /\ saleHappened = FALSE
    /\ years = <<>>
    /\ locals = <<>>
    /\ result = NoResult

Init ==
    /\ Idle
    /\ afaArgs = NoArgs
    /\ afaRates = <<>>

\* A call that starts from the cumulative cash flow the previous call left.
EntryAccKeepingCF(unpacked, old) ==
    [InitialAcc(unpacked) EXCEPT !.cumulativeCF = old.cumulativeCF]

\* The accumulators a call starts from.
EntryAcc(unpacked, old) == InitialAcc(unpacked)

\* A caller invokes simulateScenario(inp): the inputs are destructured and the
\* loop-carried variables initialised.
Call(inp) ==
    /\ pc \in {"idle", "done"}
    /\ Len(log) < MaxCalls
    /\ inputs' = inp
    /\ given' = inp
    /\ \E unpacked \in {Unpack(inp, clock)} :
           /\ u' = unpacked
           /\ SetAcc(EntryAcc(unpacked, Acc))
    /\ year' = 1
    /\ years' = <<>>
    /\ locals' = <<>>
    /\ result' = NoResult
    /\ pc' = "loop"
    /\ UNCHANGED <<clock, log, afaVars>>

\* A loop that runs one year past the horizon.
loopGuardOneMore(unpacked, y) == RLe(R(y), RAdd(horizonYears(unpacked), One))

\* for (let year = 1; year <= horizonYears; year++) { ... }
loopGuard(unpacked, y) == RLe(R(y), horizonYears(unpacked))

LoopYear ==
    /\ pc = "loop"
    /\ loopGuard(u, year)
    /\ \E step \in {YearStep(u, year, Acc)} :
           /\ SetAcc(step.acc)
           /\ years' = Append(years, step.rec)
           /\ locals' = Append(locals, step.loc)
    /\ year' = year + 1
    /\ UNCHANGED <<inputs, given, clock, log, pc, u, result, afaVars>>

\* The loop is over: KPIs are computed and the result object returned.
Finish ==
    /\ pc = "loop"
    /\ ~loopGuard(u, year)
    /\ IF years = <<>>
       THEN \* last is undefined: reading last.equityPosition throws
            /\ pc' = "threw"
            /\ UNCHANGED <<log, result>>
       ELSE /\ \E res \in {[meta |-> Meta(u), years |-> years, kpis |-> Kpis(u, years)]} :
                   /\ result' = res
                   /\ log' = Append(log, [given |-> given, inputs |-> inputs,
                                           result |-> res])
            /\ pc' = "done"
    /\ UNCHANGED <<inputs, given, clock, u, year, accVars, years, locals, afaVars>>

\* Time passes between calls.
Tick ==
    /\ pc # "loop"
    /\ clock < FirstClock + MaxTicks
    /\ clock' = clock + 1
    /\ UNCHANGED <<inputs, given, log, pc, u, year, accVars, years, locals, result,
                   afaVars>>

\* One call, with any inputs.
FirstCall == pc = "idle" /\ \E inp \in InputSpace : Call(inp)

Next ==
    \/ FirstCall
    \/ LoopYear
    \/ Finish

Spec == Init /\ [][Next]_vars

\* A sequence of calls, as recalcAllScenarios and repeated clicks make them:
\* a first call, then calls with the same or with other inputs, while the
\* clock may advance between them.
CallChoices ==
    IF log = <<>> THEN CallInputs ELSE {log[1].given} \cup OtherInputs

AnyCall == \E inp \in CallChoices : Call(inp)

NextCalls ==
    \/ AnyCall
    \/ LoopYear
    \/ Finish
    \/ Tick

SpecCalls == Init /\ [][NextCalls]_vars

-----------------------------------------------------------------------------
\* getAfaRate on its own: one depreciation model and lifetime, asked for the
\* rate of year 1, 2, ... in turn.
MaxAfaYear == 52

AfaModels ==
    { "Linear 2%", "Linear 2% p.a.", "Linear 3%", "Linear 3% p.a.",
      "Degressive 5% + Linear 2%", "Degressive 5% + Linear 3%",
      "Linear 1/Restnutzungsdauer", "Linear 1 / remaining life",
      "Linear 4%", "" }

\* lifetimeYears: given, or left to its default of 50
AfaArgChoices ==
    { [afaModel |-> m] @@ l :
        m \in AfaModels,
        l \in { [lifetimeYears |-> R(0)], [lifetimeYears |-> R(1)],
                [lifetimeYears |-> R(3)], [lifetimeYears |-> Rat(5, 2)],
                [lifetimeYears |-> R(50)], <<>> } }

InitAfa ==
    /\ Idle
    /\ afaArgs \in AfaArgChoices
    /\ afaRates = <<>>

AfaYear ==
    /\ afaArgs # NoArgs
    /\ Len(afaRates) < MaxAfaYear
    /\ afaRates' = Append(afaRates,
                          getAfaRate(afaArgs.afaModel, Len(afaRates) + 1,
                                     Get(afaArgs, "lifetimeYears", R(50))))
    /\ UNCHANGED <<inputs, given, clock, log, pc, u, year, accVars, years, locals,
                   result, afaArgs>>

NextAfa == AfaYear

SpecAfa == InitAfa /\ [][NextAfa]_vars

-----------------------------------------------------------------------------
(* simulateScenario as a function of the inputs and of the year the clock   *)
(* shows: the loop folded over the years, then the KPIs.                    *)

RECURSIVE RunLoop(_, _, _, _)
RunLoop(unpacked, y, acc, yrs) ==
    IF loopGuard(unpacked, y)
    THEN The({ RunLoop(unpacked, y + 1, step.acc, Append(yrs, step.rec)) :
               step \in {YearStep(unpacked, y, acc)} })
    ELSE yrs

ResultOf(unpacked, yrs) ==
    [meta |-> Meta(unpacked), years |-> yrs, kpis |-> Kpis(unpacked, yrs)]

Simulate(inp, now) ==
    The({ The({ ResultOf(unpacked, yrs) :
                yrs \in {RunLoop(unpacked, 1, InitialAcc(unpacked), <<>>)} }) :
          unpacked \in {Unpack(inp, now)} })

-----------------------------------------------------------------------------
(* Vocabulary of the properties below.                                      *)

InRun == pc \in {"loop", "done"}

\* saleMode = "sell" with a saleYear that is set
SellConfigured == u.saleMode = "sell" /\ u.saleYear # Null

\* saleYear is one of the simulated years 1..horizonYears
SaleYearSimulated ==
    /\ u.saleYear # Null
    /\ IsInt(u.saleYear)
    /\ RLe(One, u.saleYear)
    /\ RLe(u.saleYear, horizonYears(u))

\* the years recorded so far in which the sale branch was taken
SoldYears == { k \in 1..Len(locals) : locals[k].sold }

\* remainingDebt / cumulativeCF as they stood when year k began
DebtBefore(k) == IF k = 1 THEN loanAmount1(u) ELSE years[k - 1].remainingDebt
CFBefore(k)   == IF k = 1 THEN Zero ELSE years[k - 1].cumulativeCF

-----------------------------------------------------------------------------
(* C1.  When saleMode = "sell" and saleYear = Y with 1 <= Y <= horizonYears, *)
(* the propertyValue recorded in year Y and in every later year is 0.       *)
(* The code zeroes propertyVal in year Y only: the roll-forward of the next *)
(* iteration recomputes it from landVal and buildingVal.                    *)

C1_PropertyValueZeroFromSaleYear ==
    InRun =>
        \A k \in 1..Len(years) :
            (u.saleMode = "sell" /\ SaleYearSimulated /\ RLe(u.saleYear, R(k)))
                => years[k].propertyValue = Zero

-----------------------------------------------------------------------------
(* C2.  When a sale fires in year Y, every YearRecord of year Y and later    *)
(* has equityPosition = wealthFromCFAndLoan - totalInvestment, with no      *)
(* property-value term.  The code keeps this in year Y only (see C1).       *)

C2_EquityWithoutPropertyAfterSale ==
    InRun =>
        \A k \in 1..Len(years) :
            (\E j \in SoldYears : j <= k)
                => years[k].equityPosition =
                       RSub(years[k].wealthFromCFAndLoan, totalInvestment(u))

-----------------------------------------------------------------------------
(* C3.  In one run the sale branch is taken at most once; it is taken in     *)
(* year y if and only if saleMode = "sell", saleYear is not null and        *)
(* y = saleYear; in every other year remainingDebt, cashAfterTax and        *)
(* cumulativeCF are what the loan phase and the ledger alone make them.     *)

C3_SaleFiresOnceInSaleYear ==
    InRun =>
        /\ Cardinality(SoldYears) <= 1
        /\ \A k \in 1..Len(years) :
            /\ locals[k].sold <=> (SellConfigured /\ R(k) = u.saleYear)
            /\ ~(SellConfigured /\ R(k) = u.saleYear) =>
                /\ years[k].remainingDebt =
                       RSub(DebtBefore(k), years[k].principalPaid)
                /\ years[k].cashAfterTax =
                       RAdd(years[k].cashBeforeTax, years[k].taxCash)
                /\ years[k].cumulativeCF =
                       RAdd(CFBefore(k),
                            RAdd(years[k].cashBeforeTax, years[k].taxCash))

\* a run that sold in year 2 and has gone on to year 3
C3_Witness ==
    /\ InRun
    /\ Len(years) >= 3
    /\ SoldYears = {2}
    /\ years[2].cashAfterTax # RAdd(years[2].cashBeforeTax, years[2].taxCash)

-----------------------------------------------------------------------------
(* C4.  If saleMode = "sell" but saleYear equals no simulated year, the     *)
(* year records and the KPI summary are those of the same inputs run with   *)
(* saleMode = "hold".  The year records are; the KPIs are not, because      *)
(* yearsUsed is taken from saleYear whether or not a sale fired.            *)

HoldInputs(inp) == [saleMode |-> "hold"] @@ inp

C4_UnmatchedSaleYearRunsAsHold ==
    (pc = "done" /\ SellConfigured /\ ~SaleYearSimulated) =>
        /\ result.years = Simulate(HoldInputs(inputs), clock).years
        /\ result.kpis = Simulate(HoldInputs(inputs), clock).kpis

-----------------------------------------------------------------------------
(* C5.  yearsUsed equals min(saleYear, horizonYears) exactly when a sale    *)
(* fired during the run and horizonYears in every run where none fired;     *)
(* altEndValue = equity * (1 + altAfterTaxReturn)^yearsUsed.  The code      *)
(* takes yearsUsed from saleYear whenever saleMode = "sell" and saleYear is *)
(* set, also when no sale fired.                                            *)

AltEndValueFor(n) ==
    TMul(u.equity,
         MathPow(RAdd(One, RMul(u.altReturnBeforeTax, RSub(One, u.altTaxRate))), n))

C5_YearsUsedFollowsTheSale ==
    pc = "done" =>
        /\ SoldYears # {} => yearsUsed(u) = RMin(u.saleYear, horizonYears(u))
        /\ SoldYears = {} => yearsUsed(u) = horizonYears(u)
        /\ SoldYears = {} => result.kpis.altEndValue = AltEndValueFor(horizonYears(u))

-----------------------------------------------------------------------------
(* C6.  The capital-gains tax deducted from the sale-year cash flow is      *)
(* capitalGain * incomeTaxRate when saleYear <= 10 and capitalGain > 0, and *)
(* 0 otherwise: 0 for every sale after year 10 and for every sale at a      *)
(* loss.  The gain is recomputed here from the inputs in closed form.       *)

\* the property value k roll-forwards after the purchase
PropertyValAt(k) ==
    RAdd(RMul(u.landValue, MathPow(RAdd(One, u.landGrowthRate), R(k))),
         RMul(RAdd(u.buildingValue, u.fittingUp),
              MathPow(RAdd(RSub(One, u.buildingLossRate), u.constructionCostGrowth),
                      R(k))))

SaleGrossAt(k) == RMul(PropertyValAt(k), RSub(One, u.sellingCostRate))
GainAt(k)      == RSub(SaleGrossAt(k), purchaseCostBasis(u))

ExpectedCgt(k) ==
    IF k <= 10 /\ RGt(GainAt(k), Zero)
    THEN RMul(GainAt(k), u.incomeTaxRate)
    ELSE Zero

C6_CapitalGainsTaxRule ==
    InRun =>
        \A k \in SoldYears :
            /\ locals[k].cgt = ExpectedCgt(k)
            /\ years[k].cashAfterTax =
                   RAdd(RAdd(years[k].cashBeforeTax, years[k].taxCash),
                        RSub(RSub(SaleGrossAt(k),
                                  RSub(DebtBefore(k), years[k].principalPaid)),
                             ExpectedCgt(k)))
            /\ k > 10 => locals[k].cgt = Zero
            /\ ~RGt(GainAt(k), Zero) => locals[k].cgt = Zero

\* a sale after year 10 at a gain, with a positive tax rate: no tax
C6_Witness ==
    /\ InRun
    /\ \E k \in SoldYears :
        /\ k > 10
        /\ RGt(GainAt(k), Zero)
        /\ RGt(u.incomeTaxRate, Zero)
        /\ locals[k].cgt = Zero

-----------------------------------------------------------------------------
(* C7.  simulateScenario terminates and returns exactly horizonYears        *)
(* YearRecords with yearIndex 1, 2, ..., where horizonYears =               *)
(* max(1, investmentHorizonYears); 0 or a negative horizon gives exactly    *)
(* one record.                                                              *)

C7_Original ==
    pc = "done" =>
        /\ R(Len(result.years)) = horizonYears(u)
        /\ \A k \in 1..Len(result.years) : result.years[k].yearIndex = k
        /\ horizonYears(u) = RMax(One, u.investmentHorizonYears)
        /\ RLe(u.investmentHorizonYears, Zero) => Len(result.years) = 1

\* As amended: the records number the whole years within horizonYears, which
\* is horizonYears itself when investmentHorizonYears is an integer; the loop
\* counter never passes that number, so the loop ends.
C7_RecordsAreTheWholeYearsOfTheHorizon ==
    /\ InRun =>
        /\ Len(years) = year - 1
        /\ RLe(R(Len(years)), horizonYears(u))
        /\ \A k \in 1..Len(years) : years[k].yearIndex = k
    /\ pc = "done" =>
        /\ result.years = years
        /\ RLe(R(Len(result.years)), horizonYears(u))
        /\ RLt(horizonYears(u), R(Len(result.years) + 1))
        /\ result.meta.horizonYears = RMax(One, u.investmentHorizonYears)
        /\ IsInt(u.investmentHorizonYears) =>
               R(Len(result.years)) = horizonYears(u)
        /\ RLe(u.investmentHorizonYears, Zero) => Len(result.years) = 1

\* a returned run over a horizon of two and a half years: two records
C7_Witness ==
    /\ pc = "done"
    /\ ~IsInt(u.investmentHorizonYears)
    /\ RGt(u.investmentHorizonYears, One)
    /\ Len(result.years) = 2
    /\ RLt(R(2), result.meta.horizonYears)

-----------------------------------------------------------------------------
(* C8.  A zero-rate first loan (|interestRate1| < 1e-9) with term n >= 1    *)
(* and no sale before year n: the annual payment is loanAmount1 / n in each *)
(* of the years 1..n, and remainingDebt in year n is 0.                     *)

ZeroRateLoan1 ==
    /\ NearZeroRate(u.interestRate1)
    /\ u.loanTermYears1 >= 1
    /\ \A j \in SoldYears : j >= u.loanTermYears1

-----------------------------------------------------------------------------
(* C9.  In every year before a sale, and in the sale year before the sale   *)
(* repays the balance, the principal paid so far plus the remaining debt    *)
(* equals loanAmount1; so a loan that is paid off has repaid loanAmount1.   *)

RECURSIVE PrincipalPaidUpTo(_)
PrincipalPaidUpTo(k) ==
    IF k = 0 THEN Zero ELSE RAdd(PrincipalPaidUpTo(k - 1), years[k].principalPaid)

C9_PrincipalConservation ==
    InRun =>
        \A k \in 1..Len(years) :
            /\ (\A j \in SoldYears : j > k) =>
                /\ RAdd(PrincipalPaidUpTo(k), years[k].remainingDebt) = loanAmount1(u)
                /\ years[k].remainingDebt = Zero =>
                       PrincipalPaidUpTo(k) = loanAmount1(u)
            /\ k \in SoldYears =>
                   RAdd(PrincipalPaidUpTo(k), locals[k].repayDebt) = loanAmount1(u)

\* an annuity loan at interest, part paid and part outstanding
C9_Witness ==
    /\ InRun
    /\ Len(years) >= 2
    /\ SoldYears = {}
    /\ RGt(years[1].interestPaid, Zero)
    /\ RGt(years[1].principalPaid, Zero)
    /\ RGt(years[1].remainingDebt, Zero)
    /\ years[2].remainingDebt = Zero
    /\ RGt(loanAmount1(u), Zero)

-----------------------------------------------------------------------------
(* C10.  Two calls with equal inputs that give startYear return equal       *)
(* results whatever was computed in between, and no call modifies the       *)
(* inputs object it was given.                                              *)

C10_CallsAreIndependent ==
    /\ \A i \in 1..Len(log) :
        /\ log[i].inputs = log[i].given
        /\ \A j \in 1..Len(log) :
               (log[i].given = log[j].given /\ "startYear" \in DOMAIN log[i].given)
                   => log[i].result = log[j].result
    /\ pc # "idle" => inputs = given

\* the same inputs before and after a call with other inputs, at different
\* clock readings
C10_Witness ==
    /\ Len(log) = 3
    /\ log[1].given = log[3].given
    /\ log[2].given # log[1].given
    /\ "startYear" \in DOMAIN log[1].given
    /\ log[2].result # log[1].result
    /\ log[1].result.kpis.totalProfit # Zero
    /\ clock # FirstClock

-----------------------------------------------------------------------------
(* C11.  For the reference scenario the result has meta.totalInvestment =   *)
(* 343000, meta.financingNeed = 263000, meta.loanAmount1 = 263000,          *)
(* meta.disagio = 0, and year 1 has grossRent 14400 and netRent 13680.      *)

IsReference ==
    \A f \in DOMAIN ReferenceScenario :
        f \in DOMAIN inputs /\ inputs[f] = ReferenceScenario[f]

C11_ReferenceScenarioValues ==
    (pc = "done" /\ IsReference) =>
        /\ result.meta.totalInvestment = R(343000)
        /\ result.meta.financingNeed = R(263000)
        /\ result.meta.loanAmount1 = R(263000)
        /\ result.meta.disagio = Zero
        /\ result.years[1].grossRent = R(14400)
        /\ result.years[1].netRent = R(13680)

\* the reference scenario, returned with a second year of grown rent
C11_Witness ==
    /\ pc = "done"
    /\ IsReference
    /\ Len(result.years) = 2
    /\ result.years[2].grossRent = R(15840)
    /\ result.meta.totalInvestment = R(343000)

-----------------------------------------------------------------------------
(* C12.  The KPI guards replace a division by zero with 0 and nothing else: *)
(* roeTotal = totalProfit / equity and equityMultiple =                     *)
(* (equity + totalProfit) / equity for every equity # 0, negative equity    *)
(* included, and roeTotal = roeAnnualized = equityMultiple = 0 for equity   *)
(* 0; no input makes the engine raise an error.                             *)

FinalProfit == result.years[Len(result.years)].equityPosition

C12_Original ==
    /\ pc # "threw"
    /\ pc = "done" =>
        /\ u.equity # Zero =>
            /\ result.kpis.roeTotal = RDiv(FinalProfit, u.equity)
            /\ result.kpis.equityMultiple =
                   RDiv(RAdd(u.equity, FinalProfit), u.equity)
        /\ u.equity = Zero =>
            /\ result.kpis.roeTotal = Zero
            /\ result.kpis.roeAnnualized = Zero
            /\ result.kpis.equityMultiple = Zero

\* As amended: the guards are equity > 0, so the ratios are 0 for negative
\* equity as well, and roeAnnualized is 0 also for a holding period <= 0.
C12_KpiGuards ==
    /\ pc # "threw"
    /\ pc = "done" =>
        /\ Len(result.years) >= 1
        /\ result.kpis.totalProfit = FinalProfit
        /\ RGt(u.equity, Zero) =>
            /\ result.kpis.roeTotal = RDiv(FinalProfit, u.equity)
            /\ result.kpis.equityMultiple =
                   RDiv(RAdd(u.equity, FinalProfit), u.equity)
        /\ ~RGt(u.equity, Zero) =>
            /\ result.kpis.roeTotal = Zero
            /\ result.kpis.roeAnnualized = Zero
            /\ result.kpis.equityMultiple = Zero
        /\ ~RGt(yearsUsed(u), Zero) => result.kpis.roeAnnualized = Zero

\* a returned run on negative equity with a profit: all three ratios are 0
C12_Witness ==
    /\ pc = "done"
    /\ RLt(u.equity, Zero)
    /\ FinalProfit # Zero
    /\ result.kpis.roeTotal = Zero
    /\ result.kpis.equityMultiple = Zero

-----------------------------------------------------------------------------
(* C13.  Over the years of one run the loan phase is monotone: every year   *)
(* is in exactly one of Loan1, Loan2 or inactive; Loan1 years precede Loan2 *)
(* years, which precede inactive years; a Loan2 year has                    *)
(* year > loanTermYears1; after a year without interest and principal no    *)
(* later year is in Loan1 or Loan2.                                         *)

PhaseRank(p) == CASE p = "Loan1" -> 1 [] p = "Loan2" -> 2 [] OTHER -> 3

-----------------------------------------------------------------------------
(* C14.  A year has no loan payment (interestPaid = principalPaid = 0) only *)
(* if remainingDebt at the start of that year is <= 1e-6: while a positive  *)
(* balance remains, every year is serviced by Loan1 or Loan2.  The code     *)
(* also leaves a balance unserviced in every year beyond the loan terms.    *)

C14_UnservicedOnlyWhenRepaid ==
    InRun =>
        \A k \in 1..Len(locals) :
            locals[k].phase = "none" => ~AboveDebtEps(DebtBefore(k))

-----------------------------------------------------------------------------
(* C15.  The loan-2 annuity is computed once per run, in the first Loan2    *)
(* year, from the remainingDebt at the start of that year with              *)
(* interestRate2 and loanTermYears2; every later Loan2 year pays the same.  *)

Loan2Years == { k \in 1..Len(locals) : locals[k].phase = "Loan2" }

FirstLoan2Year == CHOOSE k \in Loan2Years : \A j \in Loan2Years : k <= j

C15_Annuity2FixedAtEntry ==
    InRun =>
        \A k \in 1..Len(locals) :
            /\ k \in Loan2Years =>
                   locals[k].annualPayment =
                       pmt(u.interestRate2, u.loanTermYears2,
                           DebtBefore(FirstLoan2Year))
            /\ locals[k].annuity2 =
                   IF \E j \in Loan2Years : j <= k
                   THEN pmt(u.interestRate2, u.loanTermYears2,
                            DebtBefore(FirstLoan2Year))
                   ELSE Zero
            /\ locals[k].secondLoanStarted <=> \E j \in Loan2Years : j <= k

\* a second Loan2 year on a smaller balance, paying the first year's annuity
C15_Witness ==
    /\ InRun
    /\ Cardinality(Loan2Years) >= 2
    /\ \E k \in Loan2Years :
        /\ k > FirstLoan2Year
        /\ RLt(DebtBefore(k), DebtBefore(FirstLoan2Year))
        /\ locals[k].annualPayment = locals[FirstLoan2Year].annualPayment
        /\ locals[k].annualPayment #
               pmt(u.interestRate2, u.loanTermYears2, DebtBefore(k))

-----------------------------------------------------------------------------
(* C16.  When a sale fires in year Y the regular loan payment of year Y is  *)
(* applied first, the balance left after it is deducted from the proceeds   *)
(* (saleNetCF = saleGross - repayDebt - cgt, added to cashAfterTax and to   *)
(* cumulativeCF), remainingDebt is recorded as 0 in year Y, and every later *)
(* year has remainingDebt = interestPaid = principalPaid = 0.               *)

C16_SaleClearsTheLoan ==
    InRun =>
        \A k \in SoldYears :
            /\ locals[k].repayDebt = RSub(DebtBefore(k), years[k].principalPaid)
            /\ locals[k].saleNetCF =
                   RSub(RSub(SaleGrossAt(k), locals[k].repayDebt), locals[k].cgt)
            /\ years[k].cashAfterTax =
                   RAdd(RAdd(years[k].cashBeforeTax, years[k].taxCash),
                        locals[k].saleNetCF)
            /\ years[k].cumulativeCF = RAdd(CFBefore(k), years[k].cashAfterTax)
            /\ years[k].remainingDebt = Zero
            /\ \A j \in (k + 1)..Len(years) :
                /\ years[j].remainingDebt = Zero
                /\ years[j].interestPaid = Zero
                /\ years[j].principalPaid = Zero

\* a sale in the second year of a three-year loan: that year's instalment
\* is paid, the rest repaid from the proceeds, and a third year follows
C16_Witness ==
    /\ InRun
    /\ SoldYears = {2}
    /\ Len(years) >= 3
    /\ RGt(years[2].principalPaid, Zero)
    /\ RGt(locals[2].repayDebt, Zero)
    /\ RLt(locals[2].repayDebt, DebtBefore(2))
    /\ years[3].remainingDebt = Zero

-----------------------------------------------------------------------------
(* C17.  getAfaRate follows the depreciation table for every year >= 1:     *)
(* Linear 2% gives 0.02 for years 1..50 and 0 after; Linear 3% 0.03 for     *)
(* years 1..33 and 0 after; the degressive models 0.05 for years 1..6 and   *)
(* then 0.02 resp. 0.03; Linear 1/remaining-life 1/lifetime for years       *)
(* 1..lifetime and 0 after; any other model name 0.02 in every year.        *)

AfaLifetime == Get(afaArgs, "lifetimeYears", R(50))

AfaTable(k) ==
    IF afaArgs.afaModel \in {"Linear 2%", "Linear 2% p.a."}
        THEN (IF k \in 1..50 THEN Rat(1, 50) ELSE Zero)
    ELSE IF afaArgs.afaModel \in {"Linear 3%", "Linear 3% p.a."}
        THEN (IF k \in 1..33 THEN Rat(3, 100) ELSE Zero)
    ELSE IF afaArgs.afaModel = "Degressive 5% + Linear 2%"
        THEN (IF k \in 1..6 THEN Rat(1, 20) ELSE Rat(1, 50))
    ELSE IF afaArgs.afaModel = "Degressive 5% + Linear 3%"
        THEN (IF k \in 1..6 THEN Rat(1, 20) ELSE Rat(3, 100))
    ELSE IF afaArgs.afaModel \in {"Linear 1/Restnutzungsdauer",
                                  "Linear 1 / remaining life"}
        THEN (IF RLe(R(k), AfaLifetime) THEN RDiv(One, AfaLifetime) ELSE Zero)
    ELSE Rat(1, 50)

C17_AfaRateTable ==
    afaArgs # NoArgs =>
        \A k \in 1..Len(afaRates) : afaRates[k] = AfaTable(k)

\* Linear 3% past its 33 years
C17_Witness ==
    /\ afaArgs # NoArgs
    /\ afaArgs.afaModel = "Linear 3% p.a."
    /\ Len(afaRates) >= 34
    /\ afaRates[33] = Rat(3, 100)
    /\ afaRates[34] = Zero

-----------------------------------------------------------------------------
(* C18.  The year ledger has no lookahead: for the same inputs apart from   *)
(* investmentHorizonYears, a run with horizon H and a run with a longer     *)
(* horizon produce identical YearRecords for the years 1..H.                *)

\* horizons beyond that of the current call: one year more, and (where rent
\* does not compound) one beyond the longest
LongerHorizons ==
    { h \in {RAdd(horizonYears(u), One)}
             \cup (IF u.rentGrowth = Zero THEN {R(LongHorizon + 1)} ELSE {}) :
        RGt(h, horizonYears(u)) }

WithHorizon(h) == [investmentHorizonYears |-> h] @@ inputs

C18_NoLookahead ==
    pc = "done" =>
        \A h \in LongerHorizons :
            \E longer \in {Simulate(WithHorizon(h), clock).years} :
                /\ Len(longer) > Len(result.years)
                /\ SubSeq(longer, 1, Len(result.years)) = result.years

\* a run that ends before its sale year, and a longer one that reaches it
C18_Witness ==
    /\ pc = "done"
    /\ SellConfigured
    /\ SaleYearSimulated = FALSE
    /\ IsInt(u.saleYear)
    /\ RGt(u.saleYear, horizonYears(u))
    /\ Len(result.years) >= 2
    /\ \E h \in LongerHorizons :
           Simulate(WithHorizon(h), clock).years[Len(result.years) + 1].propertyValue
               = Zero

=============================================================================
